---- MODULE Spec2Model ----
(***************************************************************************)
(* memory-monitor (mem_monitor.py): the polling loop of MemoryMonitor, the *)
(* per-process-group state of ProcessGroup, the tiered idle-time warning   *)
(* policy and the system-level critical / terminate cascade.               *)
(*                                                                         *)
(* Representation.  The source computes with floats; the model uses        *)
(* integers:                                                               *)
(*   - time.time() is the integer clock `now`, in seconds;                 *)
(*   - memory is in GB, fractions of memory are in percent, and a          *)
(*     comparison  x / total < f  is evaluated as  x * 100 < f * total;    *)
(*   - cumulative CPU time is in whole CPU-seconds.                        *)
(* The external collaborators (ps, free, kill, mail) are the nondeterminis-*)
(* tic inputs and the recorded outputs of the actions.                     *)
(***************************************************************************)
EXTENDS Integers, Sequences, FiniteSets, TLC

VARIABLES
    config,      \* the values read from config.yml (immutable after Init)
    now,         \* time.time()
    pc,          \* the statement the single thread of control is about to run
    processes,   \* MemoryMonitor.processes: dict in insertion order
    system_mem,  \* check: the value returned by fetch_total_memory
    depth,       \* number of MemoryMonitor.check frames below the current one
    error,       \* the exception that left the main loop, "" when none
    df,          \* update_processes: the frame fetch_processes returned
    reconciled,  \* update_processes: each group as it was passed to check()
    log,         \* update_processes: outcome of each ProcessGroup.check call
    reaped,      \* update_processes: the pgids deleted after the loop
    delivered,   \* per pgid: the user warnings mailed for the tracked instance
    kills,       \* pgids passed to `kill -- -pgid` since the tick began
    sysmails,    \* system warnings mailed since the tick began
    decision,    \* branch taken by the last MemoryMonitor.check call
    result,      \* value returned by the MemoryMonitor.check of the tick
    retired,     \* pgids whose warned instance was deleted since the tick began
    cascade_start, \* number of groups tracked at the first check of the tick
    events       \* kill commands and system mails of the tick, in order

vars == <<config, now, pc, processes, system_mem, depth, error, df,
          reconciled, log, reaped, delivered, kills, sysmails, decision, result,
          retired, cascade_start, events>>

----
\* Program constants

\* src line 44: hour in seconds
_HOUR == 3600
\* src line 46: total system memory, in GB
_TOTAL_MEMORY == 100
\* src line 203: the value of last_warning before any warning (Python None)
None == -1

\* src lines 68-90: module-level configuration
_CRITICAL_FRACTION == config.critical_fraction
_TERMINATE_ACTIVE == config.terminate_active
_TERMINATE_FRACTION == config.terminate_fraction
_UPDATE == config.update
_ACTIVE_USAGE == config.active_usage
_WARNING_COOLDOWN == config.warning_cooldown
_IDLE_TIMEOUT_HOURS == config.idle_timeout_hours

----
\* Bounds of the model

\* the polling loop is followed until the clock reads MaxTime
MaxTime == 3601
\* number of nested MemoryMonitor.check frames the interpreter allows
RecursionLimit == 2
\* seconds by which the clock may run ahead of the sleeps: the time the
\* statements of the ticks take, in total
MaxDrift == 1

\* Inputs of the polling loop: the process groups ps can list, their memory
\* (GB), their cumulative CPU time (s) and the available memory free can
\* report (GB of 100).  Group 2 is always the large idle one.
PGIDS == {1, 2}
MemSamples == {25, 60}
CpuSamples == {0, 400}
AvailSamples == {4, 5, 10, 12}

----
\* Helpers

Max(S) == CHOOSE x \in S : \A y \in S : y <= x
Min(S) == CHOOSE x \in S : \A y \in S : x <= y
Pgids(procs) == {procs[i].pgid : i \in DOMAIN procs}
IndexOf(procs, pgid) == CHOOSE i \in DOMAIN procs : procs[i].pgid = pgid

----
\* class ProcessGroup

\* variant: a new group counts as last active at time 0
ProcessGroup_stale(pgid, cputime, memory, t) ==
    [pgid |-> pgid, memory |-> memory, cputime |-> cputime,
     cputime_since_update |-> 0, last_cpu_time |-> 0,
     last_warning |-> None, total_warnings |-> 0]

ProcessGroup(pgid, cputime, memory, t) ==
    [pgid |-> pgid, memory |-> memory, cputime |-> cputime,
     cputime_since_update |-> 0, last_cpu_time |-> t,
     last_warning |-> None, total_warnings |-> 0]

idle_seconds(p, t) == t - p.last_cpu_time

\* idle_hours > timeout, with idle_hours = idle_seconds / _HOUR
idle_hours_exceeds(p, t, timeout) == idle_seconds(p, t) > timeout * _HOUR

\* variant: the cutoffs compared with <=
fraction_at_or_above(p, cutoff) == p.memory * 100 >= cutoff * _TOTAL_MEMORY

\* cutoff < memory_fraction, with memory_fraction = memory / _TOTAL_MEMORY and
\* the cutoff in percent
fraction_above(p, cutoff) == p.memory * 100 > cutoff * _TOTAL_MEMORY

\* variant: the tier's idle timeout is left out of the mute window
recently_warned_cooldown_only(p, timeout, t) ==
    IF p.last_warning = None
    THEN FALSE
    ELSE (t - p.last_warning) <= _WARNING_COOLDOWN

\* variant: a group that was never warned counts as recently warned
recently_warned_from_start(p, timeout, t) ==
    IF p.last_warning = None
    THEN TRUE
    ELSE (t - p.last_warning) <= Max({timeout * _HOUR, _WARNING_COOLDOWN})

recently_warned(p, timeout, t) ==
    IF p.last_warning = None
    THEN FALSE
    ELSE (t - p.last_warning) <= Max({timeout * _HOUR, _WARNING_COOLDOWN})

\* variant: the active threshold compared with >=
is_active_ge(delta) == delta * 100 >= _ACTIVE_USAGE * _UPDATE

\* delta > _ACTIVE_USAGE * _UPDATE, with _ACTIVE_USAGE in percent of one CPU
is_active(delta) == delta * 100 > _ACTIVE_USAGE * _UPDATE

\* variant: the CPU delta is not clamped at 0
update_unclamped(p, cputime, memory, t) ==
    LET since == cputime - p.cputime
    IN  [p EXCEPT !.memory = memory,
                  !.cputime_since_update = since,
                  !.last_cpu_time = IF is_active(since) THEN t ELSE @,
                  !.cputime = cputime]

update(p, cputime, memory, t) ==
    LET since == Max({cputime - p.cputime, 0})
    IN  [p EXCEPT !.memory = memory,
                  !.cputime_since_update = since,
                  !.last_cpu_time = IF is_active(since) THEN t ELSE @,
                  !.cputime = cputime]

\* variant: the warning is mailed and timed but not counted
warn_no_count(p, t) == [p EXCEPT !.last_warning = t]

\* variant: the warning is counted but its time is not stored
warn_count_only(p, t) == [p EXCEPT !.total_warnings = @ + 1]

\* variant: a warning also restarts the idle time of the group
warn_resets_idle(p, t) ==
    [p EXCEPT !.total_warnings = @ + 1, !.last_warning = t,
              !.last_cpu_time = t]

warn(p, t) ==
    [p EXCEPT !.total_warnings = @ + 1, !.last_warning = t]

\* np.min(cutoffs) < memory_fraction
has_tier(p) == fraction_above(p, Min(DOMAIN _IDLE_TIMEOUT_HOURS))

\* variant: the smallest of the cutoffs below the fraction
tier_cutoff_min(p) == Min({c \in DOMAIN _IDLE_TIMEOUT_HOURS : fraction_above(p, c)})

\* np.max(cutoffs[cutoffs < self.memory_fraction])
tier_cutoff(p) == Max({c \in DOMAIN _IDLE_TIMEOUT_HOURS : fraction_above(p, c)})

\* variant: a group below every cutoff is treated as in a tier of 0 hours
ProcessGroup_check_catch_all(p, t) ==
    LET timeout == IF has_tier(p) THEN _IDLE_TIMEOUT_HOURS[tier_cutoff(p)] ELSE 0
    IN  IF idle_hours_exceeds(p, t, timeout)
        THEN IF ~recently_warned(p, timeout, t)
             THEN [proc |-> warn(p, t), ret |-> 1, verdict |-> "WarnedNow",
                   timeout |-> timeout, mailed |-> TRUE]
             ELSE [proc |-> p, ret |-> 1, verdict |-> "WarnedMuted",
                   timeout |-> timeout, mailed |-> FALSE]
        ELSE [proc |-> p, ret |-> 0, verdict |-> "Ok",
              timeout |-> timeout, mailed |-> FALSE]

\* ProcessGroup.check at clock value t: the group afterwards, the returned
\* value, the branch taken, the timeout looked up (None when no tier applies)
\* and whether a mail was sent.
ProcessGroup_check(p, t) ==
    IF has_tier(p)
    THEN LET timeout == _IDLE_TIMEOUT_HOURS[tier_cutoff(p)]
         IN  IF idle_hours_exceeds(p, t, timeout)
             THEN IF ~recently_warned(p, timeout, t)
                  THEN [proc |-> warn(p, t), ret |-> 1, verdict |-> "WarnedNow",
                        timeout |-> timeout, mailed |-> TRUE]
                  ELSE [proc |-> p, ret |-> 1, verdict |-> "WarnedMuted",
                        timeout |-> timeout, mailed |-> FALSE]
             ELSE [proc |-> p, ret |-> 0, verdict |-> "Ok",
                   timeout |-> timeout, mailed |-> FALSE]
    ELSE [proc |-> p, ret |-> 0, verdict |-> "Ok",
          timeout |-> None, mailed |-> FALSE]

----
\* class MemoryMonitor

\* The rows fetch_processes can return: one row per pgid, memory > 0, sorted
\* by memory in descending order (rows of equal memory in either order).
Rows ==
    {r \in [pgid : PGIDS, cputime : CpuSamples, memory : MemSamples] :
        /\ r.pgid = 2 => (r.cputime = 0 /\ r.memory = 60)
        /\ r.memory = 60 => r.cputime = 0}

Snapshots ==
    {s \in UNION {[1..n -> Rows] : n \in 0..Cardinality(PGIDS)} :
        /\ \A i, j \in DOMAIN s : i # j => s[i].pgid # s[j].pgid
        /\ \A i, j \in DOMAIN s : i < j => s[i].memory >= s[j].memory}

\* The values fetch_total_memory can return
SystemSamples == {[total |-> 100, available |-> a] : a \in AvailSamples}

\* update_processes, lines 431-443: one pass of `for pgid in df.index` for the
\* row `record`.  st carries the dict, the clock and what the pass records;
\* d is the time that passes between the update (or construction) of the
\* group and the clock reads of its check().
loop_body(st, record, d) ==
    LET tracked == record.pgid \in Pgids(st.processes)
        i == IF tracked THEN IndexOf(st.processes, record.pgid)
                        ELSE Len(st.processes) + 1
        process == IF tracked
                   THEN update(st.processes[i], record.cputime, record.memory, st.now)
                   ELSE ProcessGroup(record.pgid, record.cputime, record.memory, st.now)
        t == st.now + d
        r == ProcessGroup_check(process, t)
        history == IF tracked THEN st.delivered[record.pgid] ELSE <<>>
    IN  [processes |-> IF tracked THEN [st.processes EXCEPT ![i] = r.proc]
                                  ELSE Append(st.processes, r.proc),
         now |-> t,
         reconciled |-> Append(st.reconciled, process),
         log |-> Append(st.log, [pgid |-> record.pgid, verdict |-> r.verdict,
                                 timeout |-> r.timeout]),
         delivered |-> [st.delivered EXCEPT ![record.pgid] =
                          IF r.mailed
                          THEN Append(history, [at |-> t, timeout |-> r.timeout])
                          ELSE history]]

\* update_processes, lines 430-443: the loop over the rows frame[i..]
RECURSIVE loop(_, _, _, _)
loop(st, frame, delays, i) ==
    IF i > Len(frame)
    THEN st
    ELSE loop(loop_body(st, frame[i], delays[i]), frame, delays, i + 1)

\* update_processes, line 444: set(self.processes).difference(df.index)
disappeared(procs, frame) == Pgids(procs) \ {frame[i].pgid : i \in DOMAIN frame}

\* variant: the groups absent from the frame are never deleted
reap_nothing(procs, frame) == procs

\* update_processes, lines 444-446: del self.processes[pgid] for each of them
reap(procs, frame) ==
    SelectSeq(procs, LAMBDA p : p.pgid \notin disappeared(procs, frame))

RECURSIVE Sum(_)
Sum(delays) == IF delays = <<>> THEN 0 ELSE Head(delays) + Sum(Tail(delays))

\* highest_usage_process: the loop over self.processes.items(); 0 stands for
\* the local variable highest_usage_process never having been bound.
RECURSIVE hup_scan(_, _, _, _)
hup_scan(procs, i, highest_usage, best) ==
    IF i > Len(procs)
    THEN best
    ELSE IF procs[i].memory > highest_usage
         THEN hup_scan(procs, i + 1, procs[i].memory, i)
         ELSE hup_scan(procs, i + 1, highest_usage, best)

\* variant: the scan compares with >=, so the last of the heaviest wins
RECURSIVE hup_scan_ge(_, _, _, _)
hup_scan_ge(procs, i, highest_usage, best) ==
    IF i > Len(procs)
    THEN best
    ELSE IF procs[i].memory >= highest_usage
         THEN hup_scan_ge(procs, i + 1, procs[i].memory, i)
         ELSE hup_scan_ge(procs, i + 1, highest_usage, best)

highest_usage_process_last(procs) == hup_scan_ge(procs, 1, 0, 0)

highest_usage_process(procs) == hup_scan(procs, 1, 0, 0)

\* variant: the terminate threshold compared with <=
terminate_condition_le(sm) ==
    _TERMINATE_ACTIVE /\ sm.available * 100 <= _TERMINATE_FRACTION * sm.total

\* variant: _TERMINATE_ACTIVE is not consulted
terminate_condition_unguarded(sm) ==
    sm.available * 100 < _TERMINATE_FRACTION * sm.total

\* check, lines 463-464
terminate_condition(sm) ==
    _TERMINATE_ACTIVE /\ sm.available * 100 < _TERMINATE_FRACTION * sm.total

\* variant: the critical threshold compared with <=
critical_condition_le(sm) ==
    sm.available * 100 <= _CRITICAL_FRACTION * sm.total

\* check, line 474
critical_condition(sm) ==
    sm.available * 100 < _CRITICAL_FRACTION * sm.total

\* the pgids deleted by lines 444-446 whose instance had been warned
warned_pgids(procs, frame) ==
    {procs[i].pgid : i \in {j \in DOMAIN procs :
        /\ procs[j].pgid \in disappeared(procs, frame)
        /\ procs[j].total_warnings > 0}}

\* ProcessGroup.terminate: the command `kill -- -pgid`
terminate(p) == [op |-> "kill", pgid |-> p.pgid, memory |-> None]

\* terminate_process=None
NoProcess == [pgid |-> None, memory |-> None]

\* variant: the mail never names a terminated group
system_mail_plain(terminate_process) ==
    [op |-> "mail", pgid |-> None, memory |-> None]

\* MemoryMonitor.warn / format_warning: the mail names the pgid and the
\* memory attribute of terminate_process when one is given
system_mail(terminate_process) ==
    [op |-> "mail", pgid |-> terminate_process.pgid,
     memory |-> terminate_process.memory]

\* variant: a system mail is sent only when none was sent in this tick
MemoryMonitor_warn_once(mails) == IF mails > 0 THEN mails ELSE mails + 1

\* MemoryMonitor.warn: one call of send_mail
MemoryMonitor_warn(mails) == mails + 1

\* an exception propagates out of m.update() and of the while loop
Raise(name) ==
    /\ pc' = "crashed"
    /\ error' = name

NoSample == [total |-> 0, available |-> 0]

----
\* The polling loop

MonitorConfigs ==
    {[critical_fraction |-> cf[1], terminate_fraction |-> cf[2],
      terminate_active |-> ta, update |-> 3600, active_usage |-> 10,
      warning_cooldown |-> 1800,
      idle_timeout_hours |-> (20 :> 1) @@ (50 :> 0)] :
        cf \in {<<10, 5>>, <<5, 10>>}, ta \in BOOLEAN}

Init ==
    /\ config \in MonitorConfigs
    /\ now = 0
    /\ pc = "update_processes"
    /\ processes = <<>>
    /\ system_mem = NoSample
    /\ depth = 0
    /\ error = ""
    /\ df = <<>>
    /\ reconciled = <<>>
    /\ log = <<>>
    /\ reaped = {}
    /\ delivered = [g \in PGIDS |-> <<>>]
    /\ kills = <<>>
    /\ sysmails = 0
    /\ decision = "None"
    /\ result = None
    /\ retired = {}
    /\ cascade_start = None
    /\ events = <<>>

\* MemoryMonitor.update_processes, lines 427-446.  fetch_processes either
\* raises RuntimeError (empty ps output), which nothing catches, or returns a
\* frame.
update_processes ==
    /\ pc = "update_processes"
    /\ \/ /\ Raise("RuntimeError")
          /\ UNCHANGED <<now, processes, df, reconciled, log, reaped, delivered,
                         retired>>
       \/ \E frame \in Snapshots :
          \E delays \in [1..Len(frame) -> 0..1] :
            /\ (now + Sum(delays)) % _UPDATE <= MaxDrift
            /\ LET st == loop([processes |-> processes, now |-> now,
                               reconciled |-> <<>>, log |-> <<>>,
                               delivered |-> delivered], frame, delays, 1)
               IN  /\ processes' = reap(st.processes, frame)
                   /\ reaped' = disappeared(st.processes, frame)
                   /\ now' = st.now
                   /\ reconciled' = st.reconciled
                   /\ log' = st.log
                   /\ delivered' = st.delivered
                   /\ retired' = retired \cup warned_pgids(st.processes, frame)
            /\ df' = frame
            /\ pc' = "check"
            /\ UNCHANGED error
    /\ UNCHANGED <<config, system_mem, depth, kills, sysmails, decision, result,
                   cascade_start, events>>

\* MemoryMonitor.check, lines 456-480.  The call of update_processes and the
\* recursive call of lines 472-473 are the move back to "update_processes"
\* with one more frame; the interpreter refuses a frame beyond its recursion
\* limit with RecursionError.  What update_processes recorded is dropped.
check ==
    /\ pc = "check"
    /\ IF depth >= RecursionLimit
       THEN /\ Raise("RecursionError")
            /\ UNCHANGED <<system_mem, depth, kills, sysmails, decision, result,
                           events>>
       ELSE \E sm \in SystemSamples :
            /\ system_mem' = sm
            /\ IF terminate_condition(sm)
               THEN /\ decision' = "WarnAndTerminate"
                    /\ LET h == highest_usage_process(processes)
                       IN  IF h = 0
                           THEN /\ Raise("UnboundLocalError")
                                /\ UNCHANGED <<depth, kills, sysmails, result,
                                               events>>
                           ELSE /\ kills' = Append(kills, processes[h].pgid)
                                /\ sysmails' = MemoryMonitor_warn(sysmails)
                                /\ events' = events \o
                                      <<terminate(processes[h]),
                                        system_mail(processes[h])>>
                                /\ depth' = depth + 1
                                /\ pc' = "update_processes"
                                /\ UNCHANGED <<error, result>>
               ELSE IF critical_condition(sm)
               THEN /\ decision' = "Warn"
                    /\ sysmails' = MemoryMonitor_warn(sysmails)
                    /\ events' = Append(events, system_mail(NoProcess))
                    /\ result' = 1
                    /\ pc' = "sleep"
                    /\ UNCHANGED <<depth, error, kills>>
               ELSE /\ decision' = "Ok"
                    /\ result' = 0
                    /\ pc' = "sleep"
                    /\ UNCHANGED <<depth, error, kills, sysmails, events>>
    /\ df' = <<>>
    /\ reconciled' = <<>>
    /\ log' = <<>>
    /\ reaped' = {}
    /\ cascade_start' = IF depth = 0 THEN Len(processes) ELSE cascade_start
    /\ UNCHANGED <<config, now, processes, delivered, retired>>

\* main loop, lines 557-559: time.sleep(_UPDATE), then the next m.update()
sleep ==
    /\ pc = "sleep"
    /\ now + _UPDATE <= MaxTime
    /\ now' = now + _UPDATE
    /\ pc' = "update_processes"
    /\ depth' = 0
    /\ kills' = <<>>
    /\ sysmails' = 0
    /\ result' = None
    /\ system_mem' = NoSample
    /\ decision' = "None"
    /\ cascade_start' = None
    /\ events' = <<>>
    /\ retired' = {}
    /\ UNCHANGED <<config, processes, error, df, reconciled, log, reaped,
                   delivered>>

Next ==
    \/ update_processes
    \/ check
    \/ sleep

Spec == Init /\ [][Next]_vars

----
\* One ProcessGroup on its own: every sequence of update() and check() calls
\* on a group, with the clock moving between the calls, for several tier
\* tables.

\* clock values at which calls are made
GroupTimes == {0, 1, 21600, 21601, 86400, 86401}
\* memory (GB of 100) and cumulative CPU time (s) passed to update()
GroupMem == {5, 10, 15, 20, 25, 50, 60}
GroupCpu == {0, 360, 721}

\* idle_timeout_hours tables: the shape of the default one (larger groups are
\* warned sooner), a single tier, and one whose timeouts grow with the cutoff
TierTables ==
    {(50 :> 0) @@ (20 :> 6) @@ (10 :> 24),
     (20 :> 6),
     (50 :> 24) @@ (20 :> 0)}

GroupConfigs ==
    {[critical_fraction |-> 10, terminate_fraction |-> 5,
      terminate_active |-> FALSE, update |-> 3600, active_usage |-> au,
      warning_cooldown |-> wc, idle_timeout_hours |-> tt] :
        wc \in {0, 21600}, tt \in TierTables, au \in {0, 10}}

GroupInit ==
    /\ config \in GroupConfigs
    /\ now = 0
    /\ pc = "group"
    /\ \E c \in GroupCpu, m \in GroupMem :
          processes = <<ProcessGroup(1, c, m, 0)>>
    /\ system_mem = NoSample
    /\ depth = 0
    /\ error = ""
    /\ df = <<>>
    /\ reconciled = <<>>
    /\ log = <<>>
    /\ reaped = {}
    /\ delivered = [g \in PGIDS |-> <<>>]
    /\ kills = <<>>
    /\ sysmails = 0
    /\ decision = "None"
    /\ result = None
    /\ retired = {}
    /\ cascade_start = None
    /\ events = <<>>

\* process.update(cputime, memory); df holds the samples passed and
\* reconciled the cputime the group had stored before the call
group_update ==
    /\ pc = "group"
    /\ \E c \in GroupCpu, m \in GroupMem :
          /\ processes' = <<update(processes[1], c, m, now)>>
          /\ df' = <<[pgid |-> 1, cputime |-> c, memory |-> m]>>
    /\ reconciled' = <<[cputime |-> processes[1].cputime]>>
    /\ log' = <<>>
    /\ UNCHANGED <<config, now, pc, system_mem, depth, error, reaped,
                   delivered, kills, sysmails, decision, result, retired,
                   cascade_start, events>>

\* process.check()
group_check ==
    /\ pc = "group"
    /\ LET r == ProcessGroup_check(processes[1], now)
       IN  /\ processes' = <<r.proc>>
           /\ reconciled' = <<processes[1]>>
           /\ log' = <<[pgid |-> 1, verdict |-> r.verdict, timeout |-> r.timeout]>>
           /\ delivered' =
                IF r.mailed
                THEN [delivered EXCEPT ![1] =
                        Append(@, [at |-> now, timeout |-> r.timeout])]
                ELSE delivered
    /\ df' = <<>>
    /\ UNCHANGED <<config, now, pc, system_mem, depth, error, reaped,
                   kills, sysmails, decision, result, retired,
                   cascade_start, events>>

\* time passes between two calls
group_elapse ==
    /\ pc = "group"
    /\ \E t \in GroupTimes : t > now /\ now' = t
    /\ reconciled' = <<>>
    /\ log' = <<>>
    /\ df' = <<>>
    /\ UNCHANGED <<config, pc, processes, system_mem, depth, error, reaped,
                   delivered, kills, sysmails, decision, result, retired,
                   cascade_start, events>>

GroupNext ==
    \/ group_update
    \/ group_check
    \/ group_elapse

GroupSpec == GroupInit /\ [][GroupNext]_vars

----
\* The tier claims, checked under GroupSpec.  reconciled[k] is the group as it
\* entered its check() and log[k] what the check did.

Cutoffs == DOMAIN config.idle_timeout_hours

\* cutoff c (percent) is strictly below / equal to the memory fraction of p
CutoffBelow(c, p) == c * 100 < p.memory * 100
CutoffAt(c, p) == c * 100 = p.memory * 100

\* c is the largest cutoff strictly below the memory fraction of p
TightestCrossed(c, p) ==
    /\ c \in Cutoffs
    /\ CutoffBelow(c, p)
    /\ \A c2 \in Cutoffs : CutoffBelow(c2, p) => c2 <= c

\* C4: a group whose fraction is strictly above the smallest cutoff is
\* evaluated with the timeout paired with the largest cutoff strictly below
\* its fraction: that timeout is looked up, and the check answers Ok exactly
\* when the group has been idle for no more than it.
TierSelection ==
    \A k \in DOMAIN log :
        LET p == reconciled[k]
        IN  (\E c \in Cutoffs : CutoffBelow(c, p)) =>
                \E c \in Cutoffs :
                    /\ TightestCrossed(c, p)
                    /\ log[k].timeout = config.idle_timeout_hours[c]
                    /\ (log[k].verdict = "Ok") <=>
                          (now - p.last_cpu_time
                              <= config.idle_timeout_hours[c] * 3600)

\* C4 witness: tiers {0.50: 0, 0.20: 6, 0.10: 24}, a group at fraction 0.25 has
\* been checked and the 6-hour timeout was used.
TierSelectionWitness ==
    /\ config.idle_timeout_hours = (50 :> 0) @@ (20 :> 6) @@ (10 :> 24)
    /\ log # <<>>
    /\ reconciled[1].memory = 25
    /\ log[1].timeout = 6
    /\ log[1].verdict = "WarnedNow"

\* the timeouts of the table do not grow with the cutoff
TimeoutsNonIncreasing ==
    \A c1, c2 \in Cutoffs :
        c1 <= c2 => config.idle_timeout_hours[c1] >= config.idle_timeout_hours[c2]

\* C5 as stated: a group exactly at a cutoff c (other than the smallest) is
\* evaluated with the timeout of the next lower cutoff and that timeout is
\* smaller than or equal to the one paired with c.
BoundaryWarnsEarlier ==
    \A k \in DOMAIN log :
        \A c \in Cutoffs :
            (CutoffAt(c, reconciled[k]) /\ \E l \in Cutoffs : l < c) =>
                /\ \E l \in Cutoffs :
                      /\ TightestCrossed(l, reconciled[k])
                      /\ log[k].timeout = config.idle_timeout_hours[l]
                /\ log[k].timeout <= config.idle_timeout_hours[c]

\* C5 as amended: a group exactly at a cutoff c is evaluated with the timeout
\* of the largest cutoff strictly below c, and with no tier at all (Ok) when
\* c is the smallest cutoff; when the timeouts of the table do not grow with
\* the cutoff, that timeout is greater than or equal to the one paired with
\* c, so the group is warned no earlier than a group just above c.
BoundaryUsesLowerTier ==
    \A k \in DOMAIN log :
        \A c \in Cutoffs :
            CutoffAt(c, reconciled[k]) =>
                IF \E l \in Cutoffs : l < c
                THEN /\ \E l \in Cutoffs :
                          /\ TightestCrossed(l, reconciled[k])
                          /\ log[k].timeout = config.idle_timeout_hours[l]
                     /\ TimeoutsNonIncreasing
                          => log[k].timeout >= config.idle_timeout_hours[c]
                ELSE log[k].timeout = None /\ log[k].verdict = "Ok"

\* C5 witness: tiers {0.50: 0, 0.20: 6, 0.10: 24}; a group exactly at 0.20,
\* idle for more than 6 hours, is checked against 24 hours and not warned.
BoundaryUsesLowerTierWitness ==
    /\ config.idle_timeout_hours = (50 :> 0) @@ (20 :> 6) @@ (10 :> 24)
    /\ log # <<>>
    /\ reconciled[1].memory = 20
    /\ log[1].timeout = 24
    /\ now - reconciled[1].last_cpu_time > 6 * 3600
    /\ log[1].verdict = "Ok"

\* a step that is one call of check() on the group
GroupCheckStep == pc = "group" /\ log' # <<>>

\* C6: a check() of a group whose fraction is below every cutoff answers Ok,
\* mails nothing and leaves the group (last_warning and total_warnings
\* included) as it was, however long the group has been idle.
BelowAllTiersOk ==
    [][(GroupCheckStep /\ \A c \in Cutoffs : processes[1].memory * 100 < c * 100)
          => /\ log'[1].verdict = "Ok"
             /\ processes'[1].last_warning = processes[1].last_warning
             /\ processes'[1].total_warnings = processes[1].total_warnings
             /\ processes' = processes
             /\ delivered' = delivered]_vars

\* C6 witness: a group below every cutoff, idle for more than a day (longer
\* than every timeout), has been checked and the answer was Ok.
BelowAllTiersOkWitness ==
    /\ pc = "group"
    /\ log # <<>>
    /\ \A c \in Cutoffs : reconciled[1].memory * 100 < c * 100
    /\ now - reconciled[1].last_cpu_time > 24 * 3600
    /\ log[1].verdict = "Ok"

----
\* The system-level claims, checked under Spec

\* the comparisons of the decision list, written out on the sample
BelowTerminate(sm) ==
    config.terminate_active
    /\ sm.available * 100 < config.terminate_fraction * sm.total
BelowCritical(sm) == sm.available * 100 < config.critical_fraction * sm.total

\* the tick is over: check has returned to the main loop, or an exception
\* has left it
TickOver == pc \in {"sleep", "crashed"}

\* C1: every tick that entered the terminate branch ends, and ends because
\* the terminate condition no longer holds or because no group remains
\* tracked.  (A failure of the process listing is set aside here.)
CascadeEnds ==
    (TickOver /\ kills # <<>> /\ error # "RuntimeError")
        => (~BelowTerminate(system_mem) \/ processes = <<>>)

\* C2: a system check that finds the terminate condition true with no group
\* tracked ends the tick as a plain Warn (check returns 1, no exception).
NoGroupsEndsAsWarn ==
    (TickOver /\ error # "RecursionError" /\ system_mem # NoSample
        /\ BelowTerminate(system_mem) /\ processes = <<>>)
        => (pc = "sleep" /\ error = "" /\ result = 1)

\* C3: a failed process listing skips the tick: the tracked groups are left
\* as they were and the loop goes on to its next sleep.
SamplingFailureSkipsTick ==
    [][(pc = "update_processes" /\ error' = "RuntimeError")
          => (pc' = "sleep" /\ processes' = processes)]_vars

\* C9: the branch taken by the system check is WarnAndTerminate exactly when
\* termination is enabled and available/total < terminateFraction, otherwise
\* Warn exactly when available/total < criticalFraction, otherwise Ok; a
\* fraction equal to a threshold does not trigger it.
DecisionOrder ==
    decision # "None" =>
        /\ BelowTerminate(system_mem) => decision = "WarnAndTerminate"
        /\ (~BelowTerminate(system_mem) /\ BelowCritical(system_mem))
              => decision = "Warn"
        /\ (~BelowTerminate(system_mem) /\ ~BelowCritical(system_mem))
              => decision = "Ok"
        /\ system_mem.available * 100 = config.terminate_fraction * system_mem.total
              => decision # "WarnAndTerminate"
        /\ system_mem.available * 100 = config.critical_fraction * system_mem.total
              => decision # "Warn"
        /\ decision = "WarnAndTerminate" => (kills # <<>> \/ pc = "crashed")
        /\ decision = "Warn" => (pc = "sleep" /\ result = 1)
        /\ decision = "Ok" => (pc = "sleep" /\ result = 0)

\* C9 witness: terminateFraction above criticalFraction, and a sample that is
\* below the first but not below the second has led to a termination.
DecisionOrderWitness ==
    /\ config.terminate_fraction > config.critical_fraction
    /\ decision = "WarnAndTerminate"
    /\ ~BelowCritical(system_mem)
    /\ kills # <<>>

\* C10: inside the cascade (after a termination and the re-run of
\* update_processes) a sample that is not below terminateFraction ends the
\* tick at once, with no further termination: as Ok (check returns 0, no
\* further system warning) when it is not below criticalFraction either, as
\* Warn (check returns 1, one more system warning) when it is; and a
\* termination is followed by the re-run of update_processes.
CascadeStops ==
    [][(pc = "check" /\ error' = "")
          => /\ kills' # kills => (pc' = "update_processes" /\ Len(kills') = Len(kills) + 1)
             /\ (depth > 0 /\ ~BelowTerminate(system_mem'))
                  => /\ pc' = "sleep"
                     /\ kills' = kills
                     /\ IF BelowCritical(system_mem')
                        THEN result' = 1 /\ sysmails' = sysmails + 1
                        ELSE result' = 0 /\ sysmails' = sysmails]_vars

\* C10 witness: critical 0.10, terminate 0.05; available 4 of 100 led to one
\* termination, the re-sample read 12 of 100 and the tick ended Ok with the
\* one combined warning.
CascadeStopsWitness ==
    /\ config.critical_fraction = 10 /\ config.terminate_fraction = 5
    /\ config.terminate_active
    /\ pc = "sleep"
    /\ Len(kills) = 1
    /\ system_mem = [total |-> 100, available |-> 12]
    /\ result = 0
    /\ sysmails = 1

----
\* The tracker-level claims, checked under Spec

\* C7: any two warnings mailed for one tracked group are more than
\* max(timeout * 3600, warning_cooldown) seconds apart, the timeout being the
\* one of the tier in force at the later of the two; so two evaluations at
\* most warning_cooldown apart never both mail, in the re-runs of a
\* termination cascade as between ticks.
WarningThrottle ==
    \A g \in PGIDS :
        \A i, j \in DOMAIN delivered[g] :
            i < j =>
                LET gap == delivered[g][j].at - delivered[g][i].at
                IN  /\ gap > delivered[g][j].timeout * 3600
                    /\ gap > config.warning_cooldown

\* C7 witness: a group that has been mailed two warnings is evaluated again in
\* the re-run of a cascade and the warning is muted.
WarningThrottleWitness ==
    /\ pc = "check"
    /\ depth > 0
    /\ \E k \in DOMAIN log :
        /\ log[k].verdict = "WarnedMuted"
        /\ Len(delivered[log[k].pgid]) = 2

\* a step of update_processes that got a frame
ReconcileStep == pc = "update_processes" /\ pc' = "check"

\* C8: update_processes leaves exactly the pgids of the frame tracked and
\* deletes exactly the tracked pgids absent from it; a group tracked before
\* and present in the frame enters its check() with last_warning and
\* total_warnings as before and with last_cpu_time as before unless its CPU
\* time grew by more than the active threshold, in which case it is the time
\* of the update; and what check() does not warn is stored as it entered.
ReconcileExact ==
    [][ReconcileStep =>
        /\ Pgids(processes') = Pgids(df')
        /\ reaped' = Pgids(processes) \ Pgids(df')
        /\ \A k \in DOMAIN df' :
            LET g == df'[k].pgid
                new == reconciled'[k]
            IN  /\ new.pgid = g
                /\ log'[k].verdict # "WarnedNow"
                      => processes'[IndexOf(processes', g)] = new
                /\ g \in Pgids(processes) =>
                    LET old == processes[IndexOf(processes, g)]
                        grew == df'[k].cputime - old.cputime
                    IN  /\ new.last_warning = old.last_warning
                        /\ new.total_warnings = old.total_warnings
                        /\ IF grew * 100 > config.active_usage * config.update
                           THEN new.last_cpu_time \in now..now'
                           ELSE new.last_cpu_time = old.last_cpu_time]_vars

\* C8 witness: update_processes has deleted a group and kept another that
\* had been warned before.
ReconcileExactWitness ==
    /\ pc = "check"
    /\ reaped # {}
    /\ \E k \in DOMAIN reconciled : reconciled[k].total_warnings >= 1

\* C11: update_processes stops tracking a group in the very call whose frame
\* lacks its pgid, and a pgid of the frame that was not tracked enters its
\* check() as a new group: last_cpu_time is the time of this call,
\* last_warning is None, total_warnings is 0, and no earlier mail counts for
\* it, whatever an earlier instance of the pgid went through.
ReappearsAsNew ==
    [][ReconcileStep =>
        /\ \A g \in Pgids(processes) \ Pgids(df') : g \notin Pgids(processes')
        /\ \A k \in DOMAIN df' :
            LET g == df'[k].pgid
                new == reconciled'[k]
            IN  g \notin Pgids(processes) =>
                    /\ new.pgid = g
                    /\ new.last_cpu_time \in now..now'
                    /\ new.last_warning = None
                    /\ new.total_warnings = 0
                    /\ Len(delivered'[g]) =
                          IF log'[k].verdict = "WarnedNow" THEN 1 ELSE 0]_vars

\* C11 witness: a pgid whose warned instance was deleted earlier in the tick
\* is in the frame again and is checked as a group that was never warned.
ReappearsAsNewWitness ==
    /\ pc = "check"
    /\ \E k \in DOMAIN reconciled :
        /\ reconciled[k].pgid \in retired
        /\ reconciled[k].last_warning = None
        /\ reconciled[k].total_warnings = 0
        /\ reconciled[k].last_cpu_time > 0

\* the first update_processes of a tick
TickReconcileStep == ReconcileStep /\ depth = 0

\* C13: in the first update_processes of a tick, a tracked group that was
\* never warned, whose tier (the largest cutoff strictly below its fraction)
\* is paired with 0 hours and whose update() does not mark it active, is
\* mailed a warning in this very call (WarnedNow); the warning cooldown
\* plays no part.
ZeroTierWarnsAtOnce ==
    [][TickReconcileStep =>
        \A k \in DOMAIN df' :
            LET g == df'[k].pgid
                new == reconciled'[k]
            IN  (/\ g \in Pgids(processes)
                 /\ new.last_warning = None
                 /\ \E c \in Cutoffs :
                       TightestCrossed(c, new) /\ config.idle_timeout_hours[c] = 0
                 /\ (df'[k].cputime - processes[IndexOf(processes, g)].cputime) * 100
                       <= config.active_usage * config.update)
                    => /\ log'[k].verdict = "WarnedNow"
                       /\ Len(delivered'[g]) = Len(delivered[g]) + 1]_vars

\* C13 witness: a group above the 0-hour cutoff, tracked and not warned in
\* the first tick, is idle in the second tick and is mailed its first
\* warning there.
ZeroTierWarnsAtOnceWitness ==
    /\ pc = "check"
    /\ depth = 0
    /\ now >= config.update
    /\ \E k \in DOMAIN log :
        /\ log[k].verdict = "WarnedNow"
        /\ reconciled[k].last_warning = None
        /\ reconciled[k].memory = 60
        /\ reconciled[k].last_cpu_time < config.update
        /\ Len(delivered[log[k].pgid]) = 1

\* C15: a system check that finds available/total below critical_fraction
\* and does not take the terminate branch ends the tick and mails exactly one
\* system warning (a plain one, naming no group), whether or not a system
\* warning was mailed just before; in a tick without terminations it is the
\* one system warning of the tick.
NoSystemThrottle ==
    [][(pc = "check" /\ error' = ""
            /\ ~BelowTerminate(system_mem') /\ BelowCritical(system_mem'))
          => /\ pc' = "sleep"
             /\ sysmails' = sysmails + 1
             /\ events' = Append(events, [op |-> "mail", pgid |-> None,
                                          memory |-> None])
             /\ kills = <<>> => sysmails' = 1]_vars

\* C15 witness: a termination and its combined warning were followed, in the
\* same tick, by a check that found the system critical but not below the
\* terminate threshold: a second system warning was mailed at once.
NoSystemThrottleWitness ==
    /\ pc = "sleep"
    /\ decision = "Warn"
    /\ Len(kills) = 1
    /\ sysmails = 2
    /\ events[Len(events)].op = "mail"
    /\ events[Len(events)].pgid = None

\* a check that takes the terminate branch with at least one group tracked
TerminateStep ==
    /\ pc = "check"
    /\ error' = ""
    /\ BelowTerminate(system_mem')
    /\ processes # <<>>

\* C16: with at least one group tracked, the group the terminate branch picks
\* is a tracked group of maximal memory, and the first such group in the
\* insertion order of the dict.
HeaviestFirst ==
    [][TerminateStep =>
        /\ Len(kills') = Len(kills) + 1
        /\ \E h \in DOMAIN processes :
            /\ kills'[Len(kills')] = processes[h].pgid
            /\ \A j \in DOMAIN processes :
                  processes[j].memory <= processes[h].memory
            /\ \A j \in DOMAIN processes :
                  j < h => processes[j].memory < processes[h].memory]_vars

\* C16 witness: two groups of equal memory are tracked, pgid 2 inserted
\* before pgid 1, and the group just picked is pgid 2.
HeaviestFirstWitness ==
    /\ pc = "update_processes"
    /\ depth > 0
    /\ Len(processes) = 2
    /\ processes[1].memory = processes[2].memory
    /\ processes[1].pgid = 2
    /\ kills[Len(kills)] = 2

\* C17: within one tick the number of kill commands never exceeds the number
\* of groups that were tracked at the tick's first system check, and no pgid
\* is killed twice.
CascadeBounded ==
    kills # <<>> =>
        /\ Len(kills) <= cascade_start
        /\ \A i, j \in DOMAIN kills : i < j => kills[i] # kills[j]

\* C19: a check that takes the terminate branch issues, in this order, the
\* kill command for the picked group and then the combined warning, which
\* names that group and reports the memory the group had stored in the
\* update_processes just before; it leaves the dict as it is and goes on to
\* the re-run of update_processes.  In that re-run the killed group stays
\* tracked exactly when the new frame still lists it.
CascadeStepOrder ==
    [][/\ TerminateStep =>
            \E h \in DOMAIN processes :
                LET p == processes[h]
                IN  /\ kills' = Append(kills, p.pgid)
                    /\ events' = events \o
                          <<[op |-> "kill", pgid |-> p.pgid, memory |-> None],
                            [op |-> "mail", pgid |-> p.pgid, memory |-> p.memory]>>
                    /\ \E k \in DOMAIN df :
                          df[k].pgid = p.pgid /\ df[k].memory = p.memory
                    /\ processes' = processes
                    /\ pc' = "update_processes"
       /\ (ReconcileStep /\ kills # <<>>) =>
            (kills[Len(kills)] \in Pgids(processes')
                <=> kills[Len(kills)] \in Pgids(df'))]_vars

\* C19 witness: pgid 1 was killed while it held 60 GB and the combined
\* warning reports 60 GB; the re-run of update_processes still lists it, now
\* with 25 GB, and it is still tracked.
CascadeStepOrderWitness ==
    /\ pc = "check"
    /\ depth > 0
    /\ Len(events) >= 2
    /\ events[Len(events) - 1] = [op |-> "kill", pgid |-> 1, memory |-> None]
    /\ events[Len(events)] = [op |-> "mail", pgid |-> 1, memory |-> 60]
    /\ \E i \in DOMAIN processes :
          processes[i].pgid = 1 /\ processes[i].memory = 25

\* C20: for every tracked group, last_warning is None exactly when
\* total_warnings is 0, and then no warning was ever mailed for the group;
\* last_cpu_time is not later than the current time, nor is last_warning
\* when it is set; total_warnings is not negative.
GroupInvariants ==
    \A i \in DOMAIN processes :
        LET p == processes[i]
        IN  /\ (p.last_warning = None) <=> (p.total_warnings = 0)
            /\ p.last_warning = None => delivered[p.pgid] = <<>>
            /\ p.total_warnings = Len(delivered[p.pgid])
            /\ p.last_cpu_time <= now
            /\ p.last_warning # None => p.last_warning <= now
            /\ p.total_warnings >= 0

\* C20 witness: in the second tick one tracked group has been warned twice
\* and another tracked group has never been warned.
GroupInvariantsWitness ==
    /\ now >= config.update
    /\ \E i, j \in DOMAIN processes :
        /\ processes[i].total_warnings = 2
        /\ processes[i].last_warning = now
        /\ processes[j].total_warnings = 0
        /\ processes[j].last_warning = None

\* C21: with terminate.active false no kill command is ever issued and the
\* system check never re-runs update_processes or calls itself: every check
\* samples once and returns to the main loop with Warn or Ok, raising
\* nothing, whatever the frames and however little memory is available.
TerminateDisabled ==
    [][~config.terminate_active =>
        /\ kills' = <<>>
        /\ depth' = 0
        /\ \A i \in DOMAIN events' : events'[i].op # "kill"
        /\ pc = "check" =>
              /\ pc' = "sleep"
              /\ error' = ""
              /\ decision' = IF BelowCritical(system_mem') THEN "Warn" ELSE "Ok"
              /\ sysmails' \in {0, 1}]_vars

\* C21 witness: terminate.active is false; in the second tick, with groups
\* tracked and available memory below terminate_fraction, the check has
\* ended as Warn without a kill.
TerminateDisabledWitness ==
    /\ ~config.terminate_active
    /\ now >= config.update
    /\ pc = "sleep"
    /\ processes # <<>>
    /\ system_mem.available * 100 < config.terminate_fraction * system_mem.total
    /\ decision = "Warn"
    /\ kills = <<>>

----
\* More claims about one group, checked under GroupSpec

\* C12: over every call of update() and check() on a group, total_warnings
\* never decreases; it grows by exactly one in a check() that mails a warning
\* (WarnedNow) and stays as it is in every other call.
WarningCountMonotone ==
    [][LET before == processes[1].total_warnings
           after == processes'[1].total_warnings
           mails == Len(delivered'[1]) - Len(delivered[1])
       IN  /\ after >= before
           /\ after - before = mails
           /\ mails \in {0, 1}
           /\ (mails = 1) <=> (GroupCheckStep /\ log'[1].verdict = "WarnedNow")]_vars

\* C12 witness: a group has been mailed two warnings and counts two, and has
\* gone through a call that mailed nothing since.
WarningCountMonotoneWitness ==
    /\ pc = "group"
    /\ processes[1].total_warnings = 2
    /\ Len(delivered[1]) = 2
    /\ log # <<>>
    /\ log[1].verdict = "WarnedMuted"

\* a step that is one call of update() on the group
GroupUpdateStep == pc = "group" /\ df' # <<>>

\* C14: update() called with a cumulative CPU time below the stored one
\* computes a delta of 0 (never a negative one), leaves last_cpu_time as it
\* was, for an active_usage of 0 as for a positive one, and stores the lower
\* sample as the new cputime.
LowerSampleClamped ==
    [][(GroupUpdateStep /\ df'[1].cputime < processes[1].cputime)
          => /\ processes'[1].cputime_since_update = 0
             /\ processes'[1].last_cpu_time = processes[1].last_cpu_time
             /\ processes'[1].cputime = df'[1].cputime]_vars

\* C14 witness: with active_usage 0, a group that had 721 CPU-seconds stored
\* and was last active earlier has been updated with a sample of 360.
LowerSampleClampedWitness ==
    /\ pc = "group"
    /\ config.active_usage = 0
    /\ df # <<>>
    /\ reconciled[1].cputime = 721
    /\ df[1].cputime = 360
    /\ processes[1].cputime = 360
    /\ processes[1].cputime_since_update = 0
    /\ processes[1].last_cpu_time < now

\* C18: update() sets last_cpu_time to the current time exactly when the
\* clamped CPU delta is strictly greater than active_usage * update, and
\* otherwise leaves it; in every case memory and cputime become the samples
\* and last_warning and total_warnings stay as they were.
UpdateFrame ==
    [][GroupUpdateStep =>
        LET old == processes[1]
            new == processes'[1]
            grew == df'[1].cputime - old.cputime
            delta == IF grew > 0 THEN grew ELSE 0
        IN  /\ new.last_cpu_time =
                  IF delta * 100 > config.active_usage * config.update
                  THEN now
                  ELSE old.last_cpu_time
            /\ new.memory = df'[1].memory
            /\ new.cputime = df'[1].cputime
            /\ new.last_warning = old.last_warning
            /\ new.total_warnings = old.total_warnings]_vars

\* C18 witness: a group that was warned earlier has been updated with a CPU
\* delta of exactly active_usage * update (360 s at 10 percent of an hour)
\* and a new memory sample: it is not marked active and keeps its warning.
UpdateFrameWitness ==
    /\ pc = "group"
    /\ config.active_usage = 10
    /\ df # <<>>
    /\ df[1].cputime - reconciled[1].cputime = 360
    /\ processes[1].last_cpu_time < now
    /\ processes[1].memory = df[1].memory
    /\ processes[1].total_warnings = 1
    /\ processes[1].last_warning # None

\* C22: check() never changes memory, cputime or last_cpu_time of the group;
\* when it answers Ok or mutes the warning it changes nothing at all; when
\* it mails a warning it sets last_warning to the current time, adds one to
\* total_warnings and changes nothing else.
CheckFrame ==
    [][GroupCheckStep =>
        LET old == processes[1]
            new == processes'[1]
        IN  /\ new.pgid = old.pgid
            /\ new.memory = old.memory
            /\ new.cputime = old.cputime
            /\ new.cputime_since_update = old.cputime_since_update
            /\ new.last_cpu_time = old.last_cpu_time
            /\ IF log'[1].verdict = "WarnedNow"
               THEN /\ new.last_warning = now
                    /\ new.total_warnings = old.total_warnings + 1
               ELSE /\ log'[1].verdict \in {"Ok", "WarnedMuted"}
                    /\ new.last_warning = old.last_warning
                    /\ new.total_warnings = old.total_warnings
                    /\ new = old]_vars

\* C22 witness: a group warned once before, idle since an earlier time, has
\* been checked and warned a second time: last_warning is the current time
\* and the rest of the group is as it entered the check.
CheckFrameWitness ==
    /\ pc = "group"
    /\ log # <<>>
    /\ log[1].verdict = "WarnedNow"
    /\ reconciled[1].total_warnings = 1
    /\ reconciled[1].last_warning < now
    /\ processes[1].total_warnings = 2
    /\ processes[1].last_warning = now
    /\ processes[1].last_cpu_time = reconciled[1].last_cpu_time
    /\ processes[1].last_cpu_time < now
    /\ processes[1].memory = reconciled[1].memory

====
